---------------------------- MODULE Spec2Model ----------------------------
(***************************************************************************)
(* CloudFormation waiters (aws/internal/service/cloudformation/waiter).    *)
(*                                                                         *)
(* Each waiter function builds a poll policy (resource.StateChangeConf),   *)
(* runs the wait state machine on it and post-processes the (object,       *)
(* error) pair the wait hands back.  The policies, the post-processing and *)
(* the failure classifiers are translated from waiter.go.  The wait state  *)
(* machine itself, the status refreshers and the event lister are not part *)
(* of the source files at hand; they follow sections 4.1-4.3 of the        *)
(* specification.                                                          *)
(*                                                                         *)
(* Time is counted in milliseconds since the start of the wait.            *)
(*                                                                         *)
(* The last part models the handlers of the resource aws_msk_connector     *)
(* (aws/resource_aws_msk_connector.go and unnamed/part_000).               *)
(***************************************************************************)
EXTENDS Integers, Sequences, FiniteSets, TLC

VARIABLES
    running,     \* the call that is taking its steps: 1, or 2 when two calls run
    parked,      \* the local state of the other call, suspended; <<>> when alone
    kind,        \* the waiter function that was called
    timeoutArg,  \* its timeout (the argument, or the function's constant)
    cancelled,   \* the caller has cancelled the context it passed to the function
    pc,          \* position: "delay", "refresh", "sleep", "waited", "done", "pure", "msk"
    now,         \* milliseconds elapsed since the wait started
    wait,        \* the sleep before the next refresh
    nRefresh,    \* number of refresh calls made
    refreshAt,   \* elapsed time at which the latest refresh call was made
    last,        \* the last snapshot observed (NilObj when none)
    lastState,   \* the status string of the latest refresh that returned
    stopReason,  \* why polling stopped ("" while polling)
    outputRaw,   \* the object the wait returned
    waitErr,     \* the error the wait returned
    pages,       \* the pages the listing of the function has served so far
    listDone,    \* the API signalled that the latest page is the last one
    listFailed,  \* a page fetch of the listing failed
    visited,     \* the records the listing's callback was invoked with, in order
    strategies,  \* the classifiers the function called, in call order
    retObj,      \* the object the waiter function returned
    retErr,      \* the error the waiter function returned
    clsIn,       \* classifier check: the event sequence applied
    clsOut,      \* classifier check: the reasons returned, per classifier
    impl,        \* aws_msk_connector: the source file whose handlers run
    config,      \* aws_msk_connector: the configuration of the resource
    id,          \* aws_msk_connector: the resource ID in state (NoId when unset)
    attrs,       \* aws_msk_connector: the attributes in state
    remote,      \* the connectors that exist remotely: ARN -> connector name
    version,     \* the CurrentVersion of the connectors: ARN -> version
    before,      \* the handler that ran before the latest one, how it ended, and
                 \* the ID and the attributes in state when the latest one began
    imported,    \* the resource state the latest import yielded
    handler,     \* the latest handler that ran: "", "create", "read", "update",
                 \* "delete", "import"
    outcome,     \* how the latest handler ended: "none", "ok", "error", "panic"
    calls        \* the API calls the latest handler made, in order, each with
                 \* whether it succeeded

vars == <<running, parked, kind, timeoutArg, cancelled, pc, now, wait, nRefresh, refreshAt, last, lastState,
          stopReason, outputRaw, waitErr, pages, listDone, listFailed, visited,
          strategies, retObj, retErr, clsIn, clsOut, impl, config, id, attrs, remote,
          version, before, imported, handler, outcome, calls>>

mskVars == <<impl, config, id, attrs, remote, version, before, imported, handler,
            outcome, calls>>

waitVars == <<now, wait, nRefresh, refreshAt, last, lastState, stopReason,
              outputRaw, waitErr>>

retVars == <<pages, listDone, listFailed, visited, strategies, retObj, retErr>>

clsVars == <<clsIn, clsOut>>

-----------------------------------------------------------------------------
(* Durations of waiter.go, in milliseconds.                                *)

Second == 1000

Minute == 60000

ChangeSetCreatedTimeout == 5 * Minute

stackSetOperationDelay == 5 * Second

stackCreatedMinTimeout == 1 * Second

stackUpdatedMinTimeout == 5 * Second

stackDeletedMinTimeout == 5 * Second

TypeRegistrationTimeout == 5 * Minute

-----------------------------------------------------------------------------
(* Bounds of the model.                                                    *)

\* the timeouts a caller passes to the waiters that take one; the first is
\* shorter than every initial delay
TinyTimeout == 4000

ShortTimeout == 12000

LongTimeout == 31000

\* a refresh call returns at once or after SlowRefresh milliseconds
SlowRefresh == 300

\* pages served by one listing
MaxPages == 2

\* connectors that can exist remotely
MaxConnectors == 2

\* the timeout of the stack-set waiter when two calls run concurrently
ConcurrentTimeout == 6000

\* length of the event sequences the classifiers are applied to
MaxEvents == 3

Timeouts == {TinyTimeout, ShortTimeout, LongTimeout}

RefreshDurations == {0, SlowRefresh}

-----------------------------------------------------------------------------
(* Values.                                                                 *)

Kinds == {"ChangeSetCreated", "StackSetOperationSucceeded", "StackCreated",
          "StackUpdated", "StackDeleted", "TypeRegistrationProgressStatusComplete"}

StackKinds == {"StackCreated", "StackUpdated", "StackDeleted"}

\* the nil interface value / nil pointer
NilObj == [status |-> "<nil>", seq |-> 0]

\* the object a refresh returned: its status and the refresh call it came from
Snapshot(s, n) == [status |-> s, seq |-> n]

NoErr == [type |-> "nil"]


-----------------------------------------------------------------------------
(* The poll policies: the resource.StateChangeConf each function builds.   *)
(* A field the function does not set has Go's zero value.                  *)

\* the policy with FAILED taken for a pending status
ChangeSetCreatedConfFailedPending ==
    [Pending    |-> {"CREATE_IN_PROGRESS", "CREATE_PENDING", "FAILED"},
     Target     |-> {"CREATE_COMPLETE"},
     Timeout    |-> ChangeSetCreatedTimeout,
     MinTimeout |-> 0,
     Delay      |-> 0]

ChangeSetCreatedConf ==
    [Pending    |-> {"CREATE_IN_PROGRESS", "CREATE_PENDING"},
     Target     |-> {"CREATE_COMPLETE"},
     Timeout    |-> ChangeSetCreatedTimeout,
     MinTimeout |-> 0,
     Delay      |-> 0]

\* the policy without its initial delay
StackSetOperationSucceededConfNoDelay(timeout) ==
    [Pending    |-> {"RUNNING"},
     Target     |-> {"SUCCEEDED"},
     Timeout    |-> timeout,
     MinTimeout |-> 0,
     Delay      |-> 0]

StackSetOperationSucceededConf(timeout) ==
    [Pending    |-> {"RUNNING"},
     Target     |-> {"SUCCEEDED"},
     Timeout    |-> timeout,
     MinTimeout |-> 0,
     Delay      |-> stackSetOperationDelay]

StackCreatedConf(timeout) ==
    [Pending    |-> {"CREATE_IN_PROGRESS", "DELETE_IN_PROGRESS",
                     "ROLLBACK_IN_PROGRESS"},
     Target     |-> {"CREATE_COMPLETE", "CREATE_FAILED", "DELETE_COMPLETE",
                     "DELETE_FAILED", "ROLLBACK_COMPLETE", "ROLLBACK_FAILED"},
     Timeout    |-> timeout,
     MinTimeout |-> stackCreatedMinTimeout,
     Delay      |-> 10 * Second]

\* the policy without its minimum poll interval
StackUpdatedConfNoMinTimeout(timeout) ==
    [Pending    |-> {"UPDATE_COMPLETE_CLEANUP_IN_PROGRESS", "UPDATE_IN_PROGRESS",
                     "UPDATE_ROLLBACK_IN_PROGRESS",
                     "UPDATE_ROLLBACK_COMPLETE_CLEANUP_IN_PROGRESS"},
     Target     |-> {"CREATE_COMPLETE", "UPDATE_COMPLETE",
                     "UPDATE_ROLLBACK_COMPLETE", "UPDATE_ROLLBACK_FAILED"},
     Timeout    |-> timeout,
     MinTimeout |-> 0,
     Delay      |-> 10 * Second]

StackUpdatedConf(timeout) ==
    [Pending    |-> {"UPDATE_COMPLETE_CLEANUP_IN_PROGRESS", "UPDATE_IN_PROGRESS",
                     "UPDATE_ROLLBACK_IN_PROGRESS",
                     "UPDATE_ROLLBACK_COMPLETE_CLEANUP_IN_PROGRESS"},
     Target     |-> {"CREATE_COMPLETE", "UPDATE_COMPLETE",
                     "UPDATE_ROLLBACK_COMPLETE", "UPDATE_ROLLBACK_FAILED"},
     Timeout    |-> timeout,
     MinTimeout |-> stackUpdatedMinTimeout,
     Delay      |-> 10 * Second]

StackDeletedConf(timeout) ==
    [Pending    |-> {"DELETE_IN_PROGRESS", "ROLLBACK_IN_PROGRESS"},
     Target     |-> {"DELETE_COMPLETE", "DELETE_FAILED"},
     Timeout    |-> timeout,
     MinTimeout |-> stackDeletedMinTimeout,
     Delay      |-> 10 * Second]

TypeRegistrationProgressStatusCompleteConf ==
    [Pending    |-> {"IN_PROGRESS"},
     Target     |-> {"COMPLETE"},
     Timeout    |-> TypeRegistrationTimeout,
     MinTimeout |-> 0,
     Delay      |-> 0]

\* the policy of waiter function k called with timeout t
Conf(k, t) ==
    CASE k = "ChangeSetCreated"           -> ChangeSetCreatedConf
      [] k = "StackSetOperationSucceeded" -> StackSetOperationSucceededConf(t)
      [] k = "StackCreated"               -> StackCreatedConf(t)
      [] k = "StackUpdated"               -> StackUpdatedConf(t)
      [] k = "StackDeleted"               -> StackDeletedConf(t)
      [] OTHER                            -> TypeRegistrationProgressStatusCompleteConf

\* the timeouts function k can be called with
TimeoutArgs(k) ==
    CASE k = "ChangeSetCreated" -> {ChangeSetCreatedTimeout}
      [] k = "TypeRegistrationProgressStatusComplete" -> {TypeRegistrationTimeout}
      [] OTHER -> Timeouts

conf == Conf(kind, timeoutArg)

-----------------------------------------------------------------------------
(* The status refreshers (specification 4.1).  A refresh call returns a    *)
(* snapshot with a status, or an error, or reports the object gone.        *)

ChangeSetStatuses ==
    {"CREATE_PENDING", "CREATE_IN_PROGRESS", "CREATE_COMPLETE", "DELETE_COMPLETE",
     "FAILED"}

StackSetOperationStatuses == {"RUNNING", "SUCCEEDED", "FAILED", "STOPPED"}

StackStatuses ==
    {"CREATE_IN_PROGRESS", "CREATE_COMPLETE", "CREATE_FAILED",
     "DELETE_IN_PROGRESS", "DELETE_COMPLETE", "DELETE_FAILED",
     "ROLLBACK_IN_PROGRESS", "ROLLBACK_COMPLETE", "ROLLBACK_FAILED",
     "UPDATE_IN_PROGRESS", "UPDATE_COMPLETE", "UPDATE_COMPLETE_CLEANUP_IN_PROGRESS",
     "UPDATE_ROLLBACK_IN_PROGRESS", "UPDATE_ROLLBACK_COMPLETE",
     "UPDATE_ROLLBACK_FAILED", "UPDATE_ROLLBACK_COMPLETE_CLEANUP_IN_PROGRESS",
     "REVIEW_IN_PROGRESS"}

RegistrationStatuses == {"IN_PROGRESS", "COMPLETE", "FAILED"}

\* the statuses the refresher of waiter function k can report
Statuses(k) ==
    CASE k = "ChangeSetCreated"           -> ChangeSetStatuses
      [] k = "StackSetOperationSucceeded" -> StackSetOperationStatuses
      [] k \in StackKinds                 -> StackStatuses
      [] OTHER                            -> RegistrationStatuses

\* the errors a status query can fail with
RefreshErrors == {"Throttling", "AccessDenied"}

RefreshError(e) == [type |-> "RefreshError", code |-> e]

-----------------------------------------------------------------------------
(* The wait state machine (specification 4.2, 5 and 7).                    *)

TimeoutError(s) == [type |-> "TimeoutError", state |-> s, lastError |-> NoErr]

UnexpectedStateError(s) ==
    [type |-> "UnexpectedStateError", state |-> s, lastError |-> NoErr]

\* the sleep before the second refresh is derived from this one
InitialWait == 100

\* no sleep between two refreshes is longer
MaxWait == 10000

\* the sleep after a pending status: the previous one doubled, not below the
\* policy's minimum poll interval and not above the cap
Backoff(w, minTimeout) ==
    LET d == 2 * w
    IN  IF d < minTimeout THEN minTimeout
        ELSE IF d > MaxWait THEN MaxWait
        ELSE d

\* polling stops: the wait hands obj and err back to the waiter function
Stop(reason, obj, err) ==
    /\ pc' = "waited"
    /\ stopReason' = reason
    /\ outputRaw' = obj
    /\ waitErr' = err

\* the timeout fires: the last observed snapshot goes back with a timeout error
TimedOut ==
    /\ now' = conf.Timeout
    /\ Stop("timeout", last, TimeoutError(lastState))

\* step 1: sleep the initial delay before the first refresh
Delay ==
    /\ pc = "delay"
    /\ IF conf.Delay >= conf.Timeout
       THEN /\ TimedOut
            /\ UNCHANGED <<wait, nRefresh, refreshAt, last, lastState>>
       ELSE /\ now' = now + conf.Delay
            /\ pc' = "refresh"
            /\ UNCHANGED <<wait, nRefresh, refreshAt, last, lastState, stopReason,
                           outputRaw, waitErr>>
    /\ UNCHANGED <<mskVars, running, parked, kind, timeoutArg, cancelled, retVars, clsVars>>

\* a wait that takes the result of a call still in flight at the timeout
CalledLate(d) ==
    /\ pc = "refresh"
    /\ now' = now + d
    /\ nRefresh' = nRefresh + 1
    /\ refreshAt' = now

\* a refresh call is made and takes d milliseconds
Called(d) ==
    /\ pc = "refresh"
    /\ now + d < conf.Timeout
    /\ now' = now + d
    /\ nRefresh' = nRefresh + 1
    /\ refreshAt' = now

\* step 2: the refreshed status is in the target set
RefreshTarget ==
    \E d \in RefreshDurations, s \in Statuses(kind) \cap conf.Target :
        /\ Called(d)
        /\ last' = Snapshot(s, nRefresh + 1)
        /\ lastState' = s
        /\ Stop("target", Snapshot(s, nRefresh + 1), NoErr)
        /\ UNCHANGED <<mskVars, running, parked, kind, timeoutArg, cancelled, wait, retVars, clsVars>>

\* step 3: the refreshed status is pending: sleep, then refresh again
RefreshPending ==
    \E d \in RefreshDurations, s \in Statuses(kind) \cap conf.Pending :
        /\ Called(d)
        /\ s \notin conf.Target
        /\ last' = Snapshot(s, nRefresh + 1)
        /\ lastState' = s
        /\ wait' = Backoff(wait, conf.MinTimeout)
        /\ pc' = "sleep"
        /\ UNCHANGED <<mskVars, running, parked, kind, timeoutArg, cancelled, stopReason, outputRaw, waitErr, retVars,
                       clsVars>>

\* step 5: the refreshed status is neither pending nor target: fail at once
RefreshUnexpected ==
    \E d \in RefreshDurations, s \in Statuses(kind) \ (conf.Target \cup conf.Pending) :
        /\ Called(d)
        /\ last' = Snapshot(s, nRefresh + 1)
        /\ lastState' = s
        /\ Stop("unexpected", Snapshot(s, nRefresh + 1), UnexpectedStateError(s))
        /\ UNCHANGED <<mskVars, running, parked, kind, timeoutArg, cancelled, wait, retVars, clsVars>>

\* the caller cancels the context it passed to the function.  Only
\* TypeRegistrationProgressStatusComplete takes one; it hands it to its
\* refresher and calls WaitForState(), which takes none: the wait goes on
Cancel ==
    /\ kind = "TypeRegistrationProgressStatusComplete"
    /\ pc \in {"delay", "refresh", "sleep"}
    /\ ~cancelled
    /\ cancelled' = TRUE
    /\ UNCHANGED <<mskVars, running, parked, kind, timeoutArg, pc, waitVars, retVars, clsVars>>

\* the error of a status query made with a cancelled context
CancelErrors == IF cancelled THEN {"RequestCanceled"} ELSE {}

\* the status query fails: the error ends the wait, nothing is retried
RefreshFailed ==
    \E d \in RefreshDurations, e \in RefreshErrors \cup CancelErrors :
        /\ Called(d)
        /\ Stop("error", last, RefreshError(e))
        /\ UNCHANGED <<mskVars, running, parked, kind, timeoutArg, cancelled, wait, last, lastState, retVars, clsVars>>

\* the refresher reports that the object no longer exists: stop, no error
RefreshGone ==
    \E d \in RefreshDurations :
        /\ Called(d)
        /\ lastState' = ""
        /\ Stop("gone", NilObj, NoErr)
        /\ UNCHANGED <<mskVars, running, parked, kind, timeoutArg, cancelled, wait, last, retVars, clsVars>>

\* step 4: the timeout fires while a refresh call is in flight; the wait
\* returns without the call's result
RefreshTimeout ==
    \E d \in RefreshDurations :
        /\ pc = "refresh"
        /\ now + d >= conf.Timeout
        /\ nRefresh' = nRefresh + 1
        /\ refreshAt' = now
        /\ TimedOut
        /\ UNCHANGED <<mskVars, running, parked, kind, timeoutArg, cancelled, wait, last, lastState, retVars, clsVars>>

\* the sleep between two refreshes; the timeout may fire during it
Sleep ==
    /\ pc = "sleep"
    /\ IF now + wait >= conf.Timeout
       THEN /\ TimedOut
            /\ UNCHANGED <<wait, nRefresh, refreshAt, last, lastState>>
       ELSE /\ now' = now + wait
            /\ pc' = "refresh"
            /\ UNCHANGED <<wait, nRefresh, refreshAt, last, lastState, stopReason,
                           outputRaw, waitErr>>
    /\ UNCHANGED <<mskVars, running, parked, kind, timeoutArg, cancelled, retVars, clsVars>>

\* one step of the wait
WaitForState ==
    \/ Delay
    \/ RefreshTarget
    \/ RefreshPending
    \/ RefreshUnexpected
    \/ RefreshFailed
    \/ RefreshGone
    \/ RefreshTimeout
    \/ Sleep

-----------------------------------------------------------------------------
(* Stack events.  The strings of an event are tested for a prefix and a    *)
(* suffix, so they are kept as the sequence of words that "_" separates:   *)
(* "ROLLBACK_IN_PROGRESS" is <<"ROLLBACK", "IN", "PROGRESS">> and the      *)
(* empty string is <<"">>.  A *string field is a pointer: nil, or a value. *)

EmptyString == <<"">>

NilPtr == [nil |-> TRUE, val |-> EmptyString]

\* aws.String
String(v) == [nil |-> FALSE, val |-> v]

\* aws.StringValue: the value pointed to, "" for a nil pointer
StringValue(p) == IF p.nil THEN EmptyString ELSE p.val

\* strings.HasSuffix(s, "_" + word), for a word without "_"
HasSuffix(s, word) == Len(s) >= 2 /\ s[Len(s)] = word

\* strings.HasPrefix(s, word + "_"), for a word without "_"
HasPrefix(s, word) == Len(s) >= 2 /\ s[1] = word

ResourceStatusDeleteInProgress == <<"DELETE", "IN", "PROGRESS">>

StackResourceType == <<"AWS::CloudFormation::Stack">>

StackEvent(status, reason, type) ==
    [ResourceStatus |-> status, ResourceStatusReason |-> reason,
     ResourceType |-> type]

isFailedEvent(event) ==
    /\ HasSuffix(StringValue(event.ResourceStatus), "FAILED")
    /\ ~event.ResourceStatusReason.nil

isRollbackEvent(event) ==
    /\ HasPrefix(StringValue(event.ResourceStatus), "ROLLBACK")
    /\ ~event.ResourceStatusReason.nil

isStackDeletionEvent(event) ==
    /\ StringValue(event.ResourceStatus) = ResourceStatusDeleteInProgress
    /\ StringValue(event.ResourceType) = StackResourceType
    /\ ~event.ResourceStatusReason.nil

\* the reasons of the events of evs, in order
ReasonsOf(evs) == [i \in 1..Len(evs) |-> StringValue(evs[i].ResourceStatusReason)]

\* the callbacks of the three classifiers, applied to the events evs the
\* lister passes them one by one: failures = append(failures, reason)
FailureReasons(evs) ==
    LET Keep(e) == isFailedEvent(e) IN ReasonsOf(SelectSeq(evs, Keep))

\* a callback that appends the reason once for each predicate that holds
RECURSIVE RollbackReasonsOncePerPredicate(_)
RollbackReasonsOncePerPredicate(evs) ==
    IF evs = <<>> THEN <<>>
    ELSE LET e == Head(evs)
             reason == StringValue(e.ResourceStatusReason)
         IN  (IF isFailedEvent(e) THEN <<reason>> ELSE <<>>)
             \o (IF isRollbackEvent(e) THEN <<reason>> ELSE <<>>)
             \o RollbackReasonsOncePerPredicate(Tail(evs))

RollbackReasons(evs) ==
    LET Keep(e) == isFailedEvent(e) \/ isRollbackEvent(e)
    IN  ReasonsOf(SelectSeq(evs, Keep))

DeletionReasons(evs) ==
    LET Keep(e) == isFailedEvent(e) \/ isStackDeletionEvent(e)
    IN  ReasonsOf(SelectSeq(evs, Keep))

-----------------------------------------------------------------------------
(* The event lister (specification 4.3): it fetches the pages in order and *)
(* passes every record of every page to the callback; a page whose fetch   *)
(* fails ends the listing with the error.  pgs are the pages served, and   *)
(* failed says that the fetch after them failed.                           *)

RECURSIVE Flatten(_)
Flatten(pgs) == IF pgs = <<>> THEN <<>> ELSE Head(pgs) \o Flatten(Tail(pgs))

ListError == [type |-> "ListError"]

ListStackEventsForOperation(pgs, failed) ==
    [events |-> Flatten(pgs), err |-> IF failed THEN ListError ELSE NoErr]

getCloudFormationDeletionReasons(pgs, failed) ==
    LET l == ListStackEventsForOperation(pgs, failed)
    IN  [failures |-> DeletionReasons(l.events), err |-> l.err]

getCloudFormationRollbackReasons(pgs, failed) ==
    LET l == ListStackEventsForOperation(pgs, failed)
    IN  [failures |-> RollbackReasons(l.events), err |-> l.err]

getCloudFormationFailures(pgs, failed) ==
    LET l == ListStackEventsForOperation(pgs, failed)
    IN  [failures |-> FailureReasons(l.events), err |-> l.err]

-----------------------------------------------------------------------------
(* What the waiter functions do with the pair the wait returned.  Each     *)
(* yields the returned object, the returned error and the classifiers it   *)
(* called.                                                                 *)

IsNil(err) == err.type = "nil"

Result(obj, err, called) == [obj |-> obj, err |-> err, called |-> called]

\* errors.New(aws.StringValue(output.StatusReason)), for the output of refresh
\* call output.seq
StatusReasonError(output) == [type |-> "errorString", of |-> output.seq]

\* tfresource.SetLastError: a timeout or unexpected-state error gets lastErr as
\* its last error; any other error, and nil, is left as it is
SetLastError(err, lastErr) ==
    IF err.type \in {"TimeoutError", "UnexpectedStateError"}
    THEN [err EXCEPT !.lastError = lastErr]
    ELSE err

\* the function without the status reason of the change set
ChangeSetCreatedNoStatusReason(raw, err) ==
    IF raw # NilObj
    THEN Result(raw, err, <<>>)
    ELSE Result(NilObj, err, <<>>)

ChangeSetCreated(raw, err) ==
    IF raw # NilObj
    THEN IF raw.status = "FAILED"
         THEN Result(raw, SetLastError(err, StatusReasonError(raw)), <<>>)
         ELSE Result(raw, err, <<>>)
    ELSE Result(NilObj, err, <<>>)

\* the function with its type assertion never succeeding
TypeRegistrationDropsOutput(raw, err) == Result(NilObj, err, <<>>)

TypeRegistrationProgressStatusComplete(raw, err) ==
    IF raw # NilObj
    THEN Result(raw, err, <<>>)
    ELSE Result(NilObj, err, <<>>)

\* conn.ListStackSetOperationResultsPages with the callback of the function:
\* a nil page adds nothing, any other page adds its summaries, and the listing
\* goes on until the last page
NilPage == <<"<nil>">>

RECURSIVE Summaries(_)
Summaries(pgs) ==
    IF pgs = <<>> THEN <<>>
    ELSE IF Head(pgs) = NilPage THEN Summaries(Tail(pgs))
    ELSE Head(pgs) \o Summaries(Tail(pgs))

\* fmt.Errorf("Operation (%s) Results: %w", operationID,
\*            tfcloudformation.StackSetOperationError(summaries))
OperationResultsError(summaries) ==
    [type |-> "OperationResults", summaries |-> summaries, cause |-> NoErr]

\* fmt.Errorf("error listing CloudFormation Stack Set (%s) Operation (%s) results: %w", ...)
ListResultsError(listErr) ==
    [type |-> "ListResultsError", summaries |-> <<>>, cause |-> listErr]

\* the function listing the results whatever the status of the operation
StackSetOperationSucceededListsAnyStatus(raw, waitError, pgs, failed) ==
    IF raw # NilObj
    THEN LET listErr == IF failed THEN ListError ELSE NoErr
         IN  IF IsNil(listErr)
             THEN Result(raw, SetLastError(waitError,
                                OperationResultsError(Summaries(pgs))),
                         <<"results">>)
             ELSE Result(raw, SetLastError(waitError, ListResultsError(listErr)),
                         <<"results">>)
    ELSE Result(NilObj, waitError, <<>>)

\* the function without the branch of a failed listing
StackSetOperationSucceededDropsListErr(raw, waitError, pgs, failed) ==
    IF raw # NilObj
    THEN IF raw.status = "FAILED"
         THEN Result(raw, SetLastError(waitError,
                            OperationResultsError(Summaries(pgs))),
                     <<"results">>)
         ELSE Result(raw, waitError, <<>>)
    ELSE Result(NilObj, waitError, <<>>)

StackSetOperationSucceeded(raw, waitError, pgs, failed) ==
    IF raw # NilObj
    THEN IF raw.status = "FAILED"
         THEN LET listErr == IF failed THEN ListError ELSE NoErr
              IN  IF IsNil(listErr)
                  THEN Result(raw, SetLastError(waitError,
                                     OperationResultsError(Summaries(pgs))),
                              <<"results">>)
                  ELSE Result(raw, SetLastError(waitError, ListResultsError(listErr)),
                              <<"results">>)
         ELSE Result(raw, waitError, <<>>)
    ELSE Result(NilObj, waitError, <<>>)

\* fmt.Errorf("<msg> (%s): %q", lastStatus, reasons)
ReasonsError(msg, lastStatus, reasons) ==
    [type |-> "StackError", msg |-> msg, status |-> lastStatus,
     reasons |-> reasons, cause |-> NoErr]

\* fmt.Errorf("<msg> (%s). Got an error reading failure information: %w",
\*            lastStatus, err)
ReadError(msg, lastStatus, err) ==
    [type |-> "StackError", msg |-> msg, status |-> lastStatus,
     reasons |-> <<>>, cause |-> err]

\* a branch that reports the reasons collected whatever the lookup returned
FailedKeepsPartialReasons(stack, msg, r, c) ==
    Result(stack, ReasonsError(msg, stack.status, r.failures), <<c>>)

\* the two returns of a branch that looked up reasons r with classifier c
Failed(stack, msg, r, c) ==
    IF ~IsNil(r.err)
    THEN Result(stack, ReadError(msg, stack.status, r.err), <<c>>)
    ELSE Result(stack, ReasonsError(msg, stack.status, r.failures), <<c>>)

\* StackCreated returning the wait's object beside the wait's error
StackCreatedKeepsSnapshot(raw, err, pgs, failed) ==
    IF ~IsNil(err) THEN Result(raw, err, <<>>)
    ELSE IF raw = NilObj THEN Result(NilObj, err, <<>>)
    ELSE CASE raw.status \in {"ROLLBACK_COMPLETE", "ROLLBACK_FAILED"} ->
                Failed(raw, "failed to create CloudFormation stack, rollback requested",
                       getCloudFormationRollbackReasons(pgs, failed), "rollback")
           [] raw.status \in {"DELETE_COMPLETE", "DELETE_FAILED"} ->
                Failed(raw, "failed to create CloudFormation stack, delete requested",
                       getCloudFormationDeletionReasons(pgs, failed), "deletion")
           [] raw.status = "CREATE_FAILED" ->
                Failed(raw, "failed to create CloudFormation stack",
                       getCloudFormationFailures(pgs, failed), "failures")
           [] OTHER -> Result(raw, NoErr, <<>>)

\* StackCreated without the case of CREATE_FAILED
StackCreatedNoCreateFailedCase(raw, err, pgs, failed) ==
    IF ~IsNil(err) THEN Result(NilObj, err, <<>>)
    ELSE IF raw = NilObj THEN Result(NilObj, err, <<>>)
    ELSE CASE raw.status \in {"ROLLBACK_COMPLETE", "ROLLBACK_FAILED"} ->
                Failed(raw, "failed to create CloudFormation stack, rollback requested",
                       getCloudFormationRollbackReasons(pgs, failed), "rollback")
           [] raw.status \in {"DELETE_COMPLETE", "DELETE_FAILED"} ->
                Failed(raw, "failed to create CloudFormation stack, delete requested",
                       getCloudFormationDeletionReasons(pgs, failed), "deletion")
           [] OTHER -> Result(raw, NoErr, <<>>)

StackCreated(raw, err, pgs, failed) ==
    IF ~IsNil(err) THEN Result(NilObj, err, <<>>)
    ELSE IF raw = NilObj THEN Result(NilObj, err, <<>>)
    ELSE CASE raw.status \in {"ROLLBACK_COMPLETE", "ROLLBACK_FAILED"} ->
                Failed(raw, "failed to create CloudFormation stack, rollback requested",
                       getCloudFormationRollbackReasons(pgs, failed), "rollback")
           [] raw.status \in {"DELETE_COMPLETE", "DELETE_FAILED"} ->
                Failed(raw, "failed to create CloudFormation stack, delete requested",
                       getCloudFormationDeletionReasons(pgs, failed), "deletion")
           [] raw.status = "CREATE_FAILED" ->
                Failed(raw, "failed to create CloudFormation stack",
                       getCloudFormationFailures(pgs, failed), "failures")
           [] OTHER -> Result(raw, NoErr, <<>>)

\* StackUpdated without the check of the wait's error
StackUpdatedIgnoresErr(raw, err, pgs, failed) ==
    IF raw = NilObj THEN Result(NilObj, err, <<>>)
    ELSE IF raw.status = "UPDATE_ROLLBACK_COMPLETE" \/ raw.status = "UPDATE_ROLLBACK_FAILED"
         THEN Failed(raw, "failed to update CloudFormation stack",
                     getCloudFormationRollbackReasons(pgs, failed), "rollback")
         ELSE Result(raw, NoErr, <<>>)

StackUpdated(raw, err, pgs, failed) ==
    IF ~IsNil(err) THEN Result(NilObj, err, <<>>)
    ELSE IF raw = NilObj THEN Result(NilObj, err, <<>>)
    ELSE IF raw.status = "UPDATE_ROLLBACK_COMPLETE" \/ raw.status = "UPDATE_ROLLBACK_FAILED"
         THEN Failed(raw, "failed to update CloudFormation stack",
                     getCloudFormationRollbackReasons(pgs, failed), "rollback")
         ELSE Result(raw, NoErr, <<>>)

\* StackDeleted reporting an error when the wait returned no stack
StackDeletedGoneIsError(raw, err, pgs, failed) ==
    IF ~IsNil(err) THEN Result(NilObj, err, <<>>)
    ELSE IF raw = NilObj THEN Result(NilObj, [type |-> "NotFoundError"], <<>>)
    ELSE IF raw.status = "DELETE_FAILED"
         THEN Failed(raw, "failed to delete CloudFormation stack",
                     getCloudFormationFailures(pgs, failed), "failures")
         ELSE Result(raw, NoErr, <<>>)

\* StackDeleted without the check of the wait's error
StackDeletedIgnoresErr(raw, err, pgs, failed) ==
    IF raw = NilObj THEN Result(NilObj, err, <<>>)
    ELSE IF raw.status = "DELETE_FAILED"
         THEN Failed(raw, "failed to delete CloudFormation stack",
                     getCloudFormationFailures(pgs, failed), "failures")
         ELSE Result(raw, NoErr, <<>>)

\* StackDeleted looking up the deletion reasons
StackDeletedUsesDeletionReasons(raw, err, pgs, failed) ==
    IF ~IsNil(err) THEN Result(NilObj, err, <<>>)
    ELSE IF raw = NilObj THEN Result(NilObj, err, <<>>)
    ELSE IF raw.status = "DELETE_FAILED"
         THEN Failed(raw, "failed to delete CloudFormation stack",
                     getCloudFormationDeletionReasons(pgs, failed), "failures")
         ELSE Result(raw, NoErr, <<>>)

StackDeleted(raw, err, pgs, failed) ==
    IF ~IsNil(err) THEN Result(NilObj, err, <<>>)
    ELSE IF raw = NilObj THEN Result(NilObj, err, <<>>)
    ELSE IF raw.status = "DELETE_FAILED"
         THEN Failed(raw, "failed to delete CloudFormation stack",
                     getCloudFormationFailures(pgs, failed), "failures")
         ELSE Result(raw, NoErr, <<>>)

-----------------------------------------------------------------------------
(* The inputs of the listings.                                             *)

SeqsUpTo(S, n) == UNION {[1..k -> S] : k \in 0..n}

\* the events the events API serves while a waiter function runs
PageEvents ==
    {StackEvent(String(<<"CREATE", "FAILED">>), String(<<"r1">>),
                String(<<"AWS::S3::Bucket">>)),
     StackEvent(String(<<"ROLLBACK", "IN", "PROGRESS">>), String(<<"r2">>),
                String(StackResourceType)),
     StackEvent(String(ResourceStatusDeleteInProgress), String(<<"r3">>),
                String(StackResourceType))}

\* a page of events: empty, one event, or two
EventPages ==
    {<<>>} \cup {<<e>> : e \in PageEvents}
    \cup {<<StackEvent(String(<<"CREATE", "FAILED">>), String(<<"r1">>),
                       String(<<"AWS::S3::Bucket">>)),
            StackEvent(String(<<"ROLLBACK", "IN", "PROGRESS">>), String(<<"r2">>),
                       String(StackResourceType))>>}

\* a page of operation results: nil, empty, or one summary
SummaryPages == {NilPage, <<>>, <<"s1">>, <<"s2">>}

\* the events the classifiers are applied to
ClassifierStatuses ==
    {<<"ROLLBACK", "IN", "PROGRESS">>, <<"ROLLBACK", "COMPLETE">>,
     <<"ROLLBACK", "FAILED">>, <<"UPDATE", "FAILED">>, <<"CREATE", "COMPLETE">>}

ClassifierReasons == {NilPtr, String(EmptyString), String(<<"r1">>), String(<<"r2">>)}

ClassifierEvents ==
    {StackEvent(String(s), r, String(<<"AWS::S3::Bucket">>)) :
        s \in ClassifierStatuses, r \in ClassifierReasons}
    \cup
    {StackEvent(String(ResourceStatusDeleteInProgress), r, String(t)) :
        r \in ClassifierReasons, t \in {StackResourceType, <<"AWS::S3::Bucket">>}}

-----------------------------------------------------------------------------
(* The waiter functions return.                                            *)

\* waiter function k applied to what the wait returned and to its listing
Function(k, raw, err, pgs, failed) ==
    CASE k = "ChangeSetCreated"           -> ChangeSetCreated(raw, err)
      [] k = "StackSetOperationSucceeded" -> StackSetOperationSucceeded(raw, err, pgs, failed)
      [] k = "StackCreated"               -> StackCreated(raw, err, pgs, failed)
      [] k = "StackUpdated"               -> StackUpdated(raw, err, pgs, failed)
      [] k = "StackDeleted"               -> StackDeleted(raw, err, pgs, failed)
      [] OTHER -> TypeRegistrationProgressStatusComplete(raw, err)

\* the function makes a listing call for what the wait returned
Lists == Function(kind, outputRaw, waitErr, <<>>, TRUE).called # <<>>

\* the pages the listing API of function k serves
Pages(k) == IF k = "StackSetOperationSucceeded" THEN SummaryPages ELSE EventPages

\* the records of page p the callback is invoked with: every event of a page
\* of events, every summary of a page of results, none of a nil page
Records(p) == IF kind = "StackSetOperationSucceeded" /\ p = NilPage THEN <<>> ELSE p

\* a listing that goes on fetching after the page the API said was the last
FetchPageAfterLast ==
    /\ pc = "waited"
    /\ Lists
    /\ ~listFailed
    /\ Len(pages) <= MaxPages
    /\ \E p \in Pages(kind), lastPage \in BOOLEAN :
          /\ pages' = Append(pages, p)
          /\ visited' = visited \o Records(p)
          /\ listDone' = (listDone \/ lastPage)
    /\ UNCHANGED <<mskVars, running, parked, kind, timeoutArg, cancelled, pc, waitVars, listFailed, strategies, retObj,
                   retErr, clsVars>>

\* the listing fetches its next page and passes its records to the callback;
\* the API says whether the page is the last one
FetchPage ==
    /\ pc = "waited"
    /\ Lists
    /\ ~listDone
    /\ ~listFailed
    /\ \E p \in Pages(kind), lastPage \in BOOLEAN :
          /\ Len(pages) + 1 = MaxPages => lastPage
          /\ pages' = Append(pages, p)
          /\ visited' = visited \o Records(p)
          /\ listDone' = lastPage
    /\ UNCHANGED <<mskVars, running, parked, kind, timeoutArg, cancelled, pc, waitVars, listFailed, strategies, retObj,
                   retErr, clsVars>>

\* the fetch of the next page fails: the listing ends with the error
FetchFails ==
    /\ pc = "waited"
    /\ Lists
    /\ ~listDone
    /\ ~listFailed
    /\ listFailed' = TRUE
    /\ UNCHANGED <<mskVars, running, parked, kind, timeoutArg, cancelled, pc, waitVars, pages, listDone, visited, strategies,
                   retObj, retErr, clsVars>>

\* the function returns r, once the listing it makes has ended
Return(r) ==
    /\ pc = "waited"
    /\ Lists => (listDone \/ listFailed)
    /\ pc' = "done"
    /\ retObj' = r.obj
    /\ retErr' = r.err
    /\ strategies' = r.called
    /\ UNCHANGED <<mskVars, running, parked, kind, timeoutArg, cancelled, waitVars, pages, listDone, listFailed, visited,
                   clsVars>>

ChangeSetCreatedReturn ==
    /\ kind = "ChangeSetCreated"
    /\ Return(ChangeSetCreated(outputRaw, waitErr))

TypeRegistrationProgressStatusCompleteReturn ==
    /\ kind = "TypeRegistrationProgressStatusComplete"
    /\ Return(TypeRegistrationProgressStatusComplete(outputRaw, waitErr))

StackSetOperationSucceededReturn ==
    /\ kind = "StackSetOperationSucceeded"
    /\ Return(StackSetOperationSucceeded(outputRaw, waitErr, pages, listFailed))

StackCreatedReturn ==
    /\ kind = "StackCreated"
    /\ Return(StackCreated(outputRaw, waitErr, pages, listFailed))

StackUpdatedReturn ==
    /\ kind = "StackUpdated"
    /\ Return(StackUpdated(outputRaw, waitErr, pages, listFailed))

StackDeletedReturn ==
    /\ kind = "StackDeleted"
    /\ Return(StackDeleted(outputRaw, waitErr, pages, listFailed))

-----------------------------------------------------------------------------
(* A call of one waiter function.                                          *)

NoClassifier == [fn |-> "", failures |-> <<>>, err |-> NoErr]

\* the unset resource ID, ""
NoId == <<>>

\* no handler has run yet
NoBefore ==
    [handler |-> "", outcome |-> "none", id |-> NoId, attrs |-> [connector_name |-> ""]]

\* no resource state has been imported
NoImport == [id |-> NoId, attrs |-> [connector_name |-> ""]]

\* no aws_msk_connector resource is handled
NoConnector ==
    /\ impl = ""
    /\ config = [connector_name |-> ""]
    /\ id = NoId
    /\ attrs = [connector_name |-> ""]
    /\ remote = <<>>
    /\ version = <<>>
    /\ before = NoBefore
    /\ imported = NoImport
    /\ handler = ""
    /\ outcome = "none"
    /\ calls = <<>>

Init ==
    /\ kind \in Kinds
    /\ timeoutArg \in TimeoutArgs(kind)
    /\ running = 1
    /\ parked = <<>>
    /\ cancelled = FALSE
    /\ pc = "delay"
    /\ now = 0
    /\ wait = InitialWait
    /\ nRefresh = 0
    /\ refreshAt = 0
    /\ last = NilObj
    /\ lastState = ""
    /\ stopReason = ""
    /\ outputRaw = NilObj
    /\ waitErr = NoErr
    /\ pages = <<>>
    /\ listDone = FALSE
    /\ listFailed = FALSE
    /\ visited = <<>>
    /\ strategies = <<>>
    /\ retObj = NilObj
    /\ retErr = NoErr
    /\ clsIn = <<>>
    /\ clsOut = NoClassifier
    /\ NoConnector

Next ==
    \/ WaitForState
    \/ Cancel
    \/ FetchPage
    \/ FetchFails
    \/ ChangeSetCreatedReturn
    \/ StackSetOperationSucceededReturn
    \/ StackCreatedReturn
    \/ StackUpdatedReturn
    \/ StackDeletedReturn
    \/ TypeRegistrationProgressStatusCompleteReturn

Spec == Init /\ [][Next]_vars

\* a running call takes its next step: the sleeps end, the refresh calls
\* return or the timeout fires, and the function returns
FairSpec == Spec /\ WF_vars(Next)

-----------------------------------------------------------------------------
(* Two calls running concurrently, for independent operations.  All the    *)
(* state of a call is local to it: its policy, the object and error of its *)
(* wait, the list its listing callback appends to.  The scheduler suspends *)
(* the running call at any step and resumes the other one.                 *)

\* the local state of the running call
Locals ==
    [kind |-> kind, timeoutArg |-> timeoutArg, cancelled |-> cancelled, pc |-> pc,
     now |-> now, wait |-> wait, nRefresh |-> nRefresh, refreshAt |-> refreshAt,
     last |-> last, lastState |-> lastState, stopReason |-> stopReason,
     outputRaw |-> outputRaw, waitErr |-> waitErr, pages |-> pages,
     listDone |-> listDone, listFailed |-> listFailed, visited |-> visited,
     strategies |-> strategies, retObj |-> retObj, retErr |-> retErr]

\* the local state of a call of function k with timeout t that has just begun
Called0(k, t) ==
    [kind |-> k, timeoutArg |-> t, cancelled |-> FALSE, pc |-> "delay",
     now |-> 0, wait |-> InitialWait, nRefresh |-> 0, refreshAt |-> 0,
     last |-> NilObj, lastState |-> "", stopReason |-> "",
     outputRaw |-> NilObj, waitErr |-> NoErr, pages |-> <<>>,
     listDone |-> FALSE, listFailed |-> FALSE, visited |-> <<>>,
     strategies |-> <<>>, retObj |-> NilObj, retErr |-> NoErr]

\* the running call resumes from the local state c
Resume(c) ==
    /\ kind' = c.kind
    /\ timeoutArg' = c.timeoutArg
    /\ cancelled' = c.cancelled
    /\ pc' = c.pc
    /\ now' = c.now
    /\ wait' = c.wait
    /\ nRefresh' = c.nRefresh
    /\ refreshAt' = c.refreshAt
    /\ lastState' = c.lastState
    /\ stopReason' = c.stopReason
    /\ outputRaw' = c.outputRaw
    /\ waitErr' = c.waitErr
    /\ pages' = c.pages
    /\ listDone' = c.listDone
    /\ listFailed' = c.listFailed
    /\ visited' = c.visited
    /\ strategies' = c.strategies
    /\ retObj' = c.retObj
    /\ retErr' = c.retErr

\* a scheduler under which the last snapshot is one variable of the package,
\* shared by the calls
SwitchSharedLast ==
    /\ parked # <<>>
    /\ running' = 3 - running
    /\ parked' = <<Locals>>
    /\ Resume(parked[1])
    /\ last' = last
    /\ UNCHANGED <<mskVars, clsVars>>

\* the scheduler suspends the running call and resumes the other one
Switch ==
    /\ parked # <<>>
    /\ running' = 3 - running
    /\ parked' = <<Locals>>
    /\ Resume(parked[1])
    /\ last' = parked[1].last
    /\ UNCHANGED <<mskVars, clsVars>>

InitConcurrent ==
    /\ running = 1
    /\ parked = <<Called0("StackDeleted", ShortTimeout)>>
    /\ kind = "StackSetOperationSucceeded"
    /\ timeoutArg = ConcurrentTimeout
    /\ cancelled = FALSE
    /\ pc = "delay"
    /\ now = 0
    /\ wait = InitialWait
    /\ nRefresh = 0
    /\ refreshAt = 0
    /\ last = NilObj
    /\ lastState = ""
    /\ stopReason = ""
    /\ outputRaw = NilObj
    /\ waitErr = NoErr
    /\ pages = <<>>
    /\ listDone = FALSE
    /\ listFailed = FALSE
    /\ visited = <<>>
    /\ strategies = <<>>
    /\ retObj = NilObj
    /\ retErr = NoErr
    /\ clsIn = <<>>
    /\ clsOut = NoClassifier
    /\ NoConnector

NextConcurrent ==
    \/ WaitForState
    \/ FetchPage
    \/ FetchFails
    \/ StackSetOperationSucceededReturn
    \/ StackDeletedReturn
    \/ Switch

SpecConcurrent == InitConcurrent /\ [][NextConcurrent]_vars

-----------------------------------------------------------------------------
(* The classifiers applied to an event sequence, served as one page.       *)

InitClassifier ==
    /\ kind = "StackCreated"
    /\ timeoutArg = ShortTimeout
    /\ running = 1
    /\ parked = <<>>
    /\ cancelled = FALSE
    /\ pc = "pure"
    /\ now = 0
    /\ wait = InitialWait
    /\ nRefresh = 0
    /\ refreshAt = 0
    /\ last = NilObj
    /\ lastState = ""
    /\ stopReason = ""
    /\ outputRaw = NilObj
    /\ waitErr = NoErr
    /\ pages = <<>>
    /\ listDone = FALSE
    /\ listFailed = FALSE
    /\ visited = <<>>
    /\ strategies = <<>>
    /\ retObj = NilObj
    /\ retErr = NoErr
    /\ clsIn \in SeqsUpTo(ClassifierEvents, MaxEvents)
    /\ clsOut = NoClassifier
    /\ NoConnector

Applied(fn, r) == [fn |-> fn, failures |-> r.failures, err |-> r.err]

ApplyFailures ==
    /\ pc = "pure"
    /\ clsOut' = Applied("getCloudFormationFailures",
                          getCloudFormationFailures(<<clsIn>>, FALSE))
    /\ UNCHANGED <<mskVars, running, parked, kind, timeoutArg, cancelled, pc, waitVars, retVars, clsIn>>

ApplyRollbackReasons ==
    /\ pc = "pure"
    /\ clsOut' = Applied("getCloudFormationRollbackReasons",
                          getCloudFormationRollbackReasons(<<clsIn>>, FALSE))
    /\ UNCHANGED <<mskVars, running, parked, kind, timeoutArg, cancelled, pc, waitVars, retVars, clsIn>>

ApplyDeletionReasons ==
    /\ pc = "pure"
    /\ clsOut' = Applied("getCloudFormationDeletionReasons",
                          getCloudFormationDeletionReasons(<<clsIn>>, FALSE))
    /\ UNCHANGED <<mskVars, running, parked, kind, timeoutArg, cancelled, pc, waitVars, retVars, clsIn>>

NextClassifier ==
    \/ ApplyFailures
    \/ ApplyRollbackReasons
    \/ ApplyDeletionReasons

SpecClassifier == InitClassifier /\ [][NextClassifier]_vars

-----------------------------------------------------------------------------
(* Properties.                                                             *)

\* the wait has returned to the waiter function
Ended == pc \in {"waited", "done"}

\* the ways a wait can end, told from what the wait observed and returned
ByTarget == lastState \in conf.Target

ByTimeout == now >= conf.Timeout

ByError == waitErr.type = "RefreshError"

ByUnexpected == lastState \notin (conf.Target \cup conf.Pending \cup {""})

ByGone == nRefresh > 0 /\ outputRaw = NilObj /\ IsNil(waitErr) /\ lastState = ""

Count(b) == IF b THEN 1 ELSE 0

\* C1, as stated: a wait that has stopped polling stopped for exactly one of
\* three reasons: a refreshed status in the target set, the timeout exceeded,
\* or an error of the refresher.
C1_ThreeReasons ==
    Ended => Count(ByTarget) + Count(ByTimeout) + Count(ByError) = 1

\* C1, amended: every wait eventually stops polling and its function returns;
\* it stops for exactly one of five reasons: a refreshed status in the target
\* set, the timeout exceeded, an error of the refresher, a refreshed status
\* that is neither pending nor target, or the refresher reporting the object
\* gone; and it polls for none of them.
C1_StopsForOneReason ==
    /\ <>(pc = "done")
    /\ [](IF Ended
          THEN Count(ByTarget) + Count(ByTimeout) + Count(ByError)
                   + Count(ByUnexpected) + Count(ByGone) = 1
          ELSE ~ByTarget /\ ~ByTimeout /\ ~ByError /\ ~ByUnexpected /\ ~ByGone)

C1_Witness ==
    /\ pc = "done"
    /\ nRefresh >= 3
    /\ ByUnexpected

\* C2: when the latest refreshed status is in the target set (the earlier
\* ones were pending and the timeout has not fired), the wait returns the
\* snapshot of that status with no error, and the waiter function returns
\* that snapshot.
C2_TargetReturnsLast ==
    (Ended /\ lastState \in conf.Target) =>
        /\ outputRaw = Snapshot(lastState, nRefresh)
        /\ IsNil(waitErr)
        /\ now < conf.Timeout
        /\ pc = "done" => retObj = Snapshot(lastState, nRefresh)

C2_Witness ==
    /\ pc = "done"
    /\ lastState \in conf.Target
    /\ nRefresh >= 3
    /\ retObj = Snapshot(lastState, 3)
    /\ kind = "TypeRegistrationProgressStatusComplete"

\* C3: no refresh call is made once the timeout has elapsed, and a wait whose
\* refreshes all returned pending statuses ends at the timeout with a timeout
\* error, which the waiter function returns: it never reports success.
C3_PendingTimesOut ==
    /\ now <= conf.Timeout
    /\ nRefresh > 0 => refreshAt < conf.Timeout
    /\ (Ended /\ lastState \in conf.Pending \ conf.Target /\ ~ByError) =>
           /\ now = conf.Timeout
           /\ waitErr = TimeoutError(lastState)
    /\ (pc = "done" /\ ByTimeout) =>
           /\ retErr.type = "TimeoutError"
           /\ retErr.state = lastState

C3_Witness ==
    /\ pc = "done"
    /\ kind = "StackDeleted"
    /\ nRefresh >= 3
    /\ lastState \in conf.Pending
    /\ retErr.type = "TimeoutError"

C5_UnexpectedStatusFailsFast ==
    /\ []((ByUnexpected
           \/ (kind = "ChangeSetCreated" /\ lastState = "FAILED")
           \/ (kind = "StackSetOperationSucceeded"
               /\ lastState \in {"FAILED", "STOPPED"}))
          => /\ Ended
             /\ waitErr.type = "UnexpectedStateError"
             /\ waitErr.state = lastState
             /\ last = Snapshot(lastState, nRefresh)
             /\ now < conf.Timeout
             /\ pc = "done" => retErr.type = "UnexpectedStateError")
    /\ [][ByUnexpected => nRefresh' = nRefresh]_vars

C5_Witness ==
    /\ pc = "done"
    /\ kind = "ChangeSetCreated"
    /\ lastState = "FAILED"
    /\ nRefresh >= 2
    /\ ~IsNil(retErr)

\* C6: an error of a refresh call ends the wait at once with that error: no
\* refresh call is made after it, and the waiter function returns that error,
\* not success.
C6_RefreshErrorIsFatal ==
    /\ [](ByError => /\ Ended
                     /\ now < conf.Timeout
                     /\ pc = "done" => retErr = waitErr)
    /\ [][ByError => nRefresh' = nRefresh /\ waitErr' = waitErr]_vars
    /\ [][(~ByError /\ ByError') => (nRefresh' = nRefresh + 1 /\ pc' = "waited")]_vars

C6_Witness ==
    /\ pc = "done"
    /\ kind = "StackUpdated"
    /\ nRefresh >= 2
    /\ last.seq = nRefresh - 1
    /\ retErr = RefreshError("Throttling")

\* the wait ended on a target status
OnTarget == pc = "done" /\ IsNil(waitErr) /\ lastState \in conf.Target

\* C7: after a wait that ended on a target status, StackCreated returns a nil
\* error iff the final status is CREATE_COMPLETE, StackUpdated iff it is
\* CREATE_COMPLETE or UPDATE_COMPLETE, StackDeleted iff it is DELETE_COMPLETE;
\* for every other target status they return the final stack with an error
\* that names the status.
C7_BusinessSuccess ==
    (OnTarget /\ kind \in StackKinds) =>
        /\ retObj = Snapshot(lastState, nRefresh)
        /\ kind = "StackCreated" => (IsNil(retErr) <=> lastState = "CREATE_COMPLETE")
        /\ kind = "StackUpdated" =>
              (IsNil(retErr) <=> lastState \in {"CREATE_COMPLETE", "UPDATE_COMPLETE"})
        /\ kind = "StackDeleted" => (IsNil(retErr) <=> lastState = "DELETE_COMPLETE")
        /\ ~IsNil(retErr) => (retErr.type = "StackError" /\ retErr.status = lastState)

C7_Witness ==
    /\ OnTarget
    /\ kind = "StackCreated"
    /\ lastState = "CREATE_FAILED"
    /\ retErr.type = "StackError"
    /\ retObj.status = "CREATE_FAILED"

\* the classifier the claim assigns to the final status s of stack waiter k
Strategy(k, s) ==
    CASE k = "StackCreated" /\ s \in {"ROLLBACK_COMPLETE", "ROLLBACK_FAILED"} -> "rollback"
      [] k = "StackCreated" /\ s \in {"DELETE_COMPLETE", "DELETE_FAILED"} -> "deletion"
      [] k = "StackCreated" /\ s = "CREATE_FAILED" -> "failures"
      [] k = "StackUpdated" /\ s \in {"UPDATE_ROLLBACK_COMPLETE", "UPDATE_ROLLBACK_FAILED"}
            -> "rollback"
      [] k = "StackDeleted" /\ s = "DELETE_FAILED" -> "failures"
      [] OTHER -> "none"

\* the reasons classifier c finds in the events evs
StrategyReasons(c, evs) ==
    CASE c = "rollback" -> RollbackReasons(evs)
      [] c = "deletion" -> DeletionReasons(evs)
      [] OTHER -> FailureReasons(evs)

\* C8: a stack waiter whose wait ended on a failure-class status runs exactly
\* the classifier of that status, and the reasons in its error are those this
\* classifier finds in the events listed; a waiter whose wait ended otherwise
\* runs none.
C8_StrategyByStatus ==
    (pc = "done" /\ kind \in StackKinds) =>
        IF OnTarget /\ Strategy(kind, lastState) # "none"
        THEN /\ strategies = <<Strategy(kind, lastState)>>
             /\ ~listFailed =>
                    retErr.reasons = StrategyReasons(Strategy(kind, lastState),
                                                     Flatten(pages))
        ELSE strategies = <<>> /\ pages = <<>>

C8_Witness ==
    /\ OnTarget
    /\ kind = "StackDeleted"
    /\ lastState = "DELETE_FAILED"
    /\ strategies = <<"failures">>
    /\ Len(pages) = 2
    /\ Len(Flatten(pages)) = 3
    /\ retErr.reasons = << <<"r1">>, <<"r1">> >>

NonEmptyReason(e) == StringValue(e.ResourceStatusReason) # EmptyString

EndsWithFailed(e) == HasSuffix(StringValue(e.ResourceStatus), "FAILED")

StartsWithRollback(e) == HasPrefix(StringValue(e.ResourceStatus), "ROLLBACK")

\* C9: getCloudFormationFailures returns exactly the reasons of the events
\* whose resource status ends with _FAILED and whose reason is non-empty, in
\* event order.
C9_FailedWithNonEmptyReason ==
    clsOut.fn = "getCloudFormationFailures" =>
        LET Keep(e) == EndsWithFailed(e) /\ NonEmptyReason(e)
        IN  clsOut.failures = ReasonsOf(SelectSeq(clsIn, Keep))

\* C10: getCloudFormationRollbackReasons returns exactly the reasons of the
\* events whose reason is non-empty and whose resource status starts with
\* ROLLBACK_ or ends with _FAILED, in event order.
C10_RollbackWithNonEmptyReason ==
    clsOut.fn = "getCloudFormationRollbackReasons" =>
        LET Keep(e) == (StartsWithRollback(e) \/ EndsWithFailed(e)) /\ NonEmptyReason(e)
        IN  clsOut.failures = ReasonsOf(SelectSeq(clsIn, Keep))

IsStackDeleteInProgress(e) ==
    /\ StringValue(e.ResourceStatus) = ResourceStatusDeleteInProgress
    /\ StringValue(e.ResourceType) = StackResourceType

\* C11: getCloudFormationDeletionReasons returns, in event order, exactly the
\* reasons of the events that have a non-empty reason and either a resource
\* status ending with _FAILED or the status DELETE_IN_PROGRESS on a resource
\* of type AWS::CloudFormation::Stack; a DELETE_IN_PROGRESS event of any other
\* resource type is not included.
C11_DeletionWithNonEmptyReason ==
    clsOut.fn = "getCloudFormationDeletionReasons" =>
        LET Keep(e) == (EndsWithFailed(e) \/ IsStackDeleteInProgress(e))
                       /\ NonEmptyReason(e)
        IN  clsOut.failures = ReasonsOf(SelectSeq(clsIn, Keep))

\* the records of the pages pgs, page by page, a nil page counting for none
RecordsOf(pgs) == IF kind = "StackSetOperationSucceeded" THEN Summaries(pgs)
                  ELSE Flatten(pgs)

\* C12: a listing fetches its pages one after the other until the API signals
\* the last page and fetches none after it; its callback has been invoked
\* exactly once with every record of every page served, in page order, and a
\* listing that ended without error ended on the last page, its result built
\* from exactly those records.
C12_PagesInOrderUntilLast ==
    /\ [](/\ visited = RecordsOf(pages)
          /\ Len(pages) = 2 => Len(visited) = Len(Records(pages[1])) + Len(Records(pages[2]))
          /\ (pc = "done" /\ strategies # <<>> /\ ~listFailed) =>
                /\ listDone
                /\ kind \in StackKinds =>
                      retErr.reasons = StrategyReasons(strategies[1], visited)
                /\ kind = "StackSetOperationSucceeded" =>
                      retErr.lastError.summaries = visited)
    /\ [][pages' # pages =>
             /\ ~listDone /\ ~listFailed
             /\ \E p \in Pages(kind) : /\ pages' = Append(pages, p)
                                       /\ visited' = visited \o Records(p)]_vars
    /\ [][listDone => (pages' = pages /\ visited' = visited /\ listDone'
                       /\ ~listFailed')]_vars

C12_Witness ==
    /\ pc = "done"
    /\ kind = "StackCreated"
    /\ lastState = "CREATE_FAILED"
    /\ listDone
    /\ Len(pages) = 2
    /\ Len(pages[1]) = 2
    /\ Len(pages[2]) = 1
    /\ Len(visited) = 3
    /\ retErr.reasons = << <<"r1">>, <<"r1">> >>

\* C13: when the fetch of a page of events fails, after earlier pages may have
\* been served, the classifier returns the error of the listing and the stack
\* waiter does not use the reasons collected from the earlier pages: the error
\* it returns carries the error of the listing and no reason.
C13_PartialReasonsDiscarded ==
    (pc = "done" /\ kind \in StackKinds /\ listFailed) =>
        /\ strategies = <<Strategy(kind, lastState)>>
        /\ getCloudFormationRollbackReasons(pages, listFailed).err = ListError
        /\ getCloudFormationDeletionReasons(pages, listFailed).err = ListError
        /\ getCloudFormationFailures(pages, listFailed).err = ListError
        /\ retErr.type = "StackError"
        /\ retErr.cause = ListError
        /\ retErr.reasons = <<>>

C13_Witness ==
    /\ pc = "done"
    /\ kind = "StackUpdated"
    /\ listFailed
    /\ Len(pages) = 1
    /\ getCloudFormationRollbackReasons(pages, listFailed).failures
           = << <<"r1">>, <<"r2">> >>
    /\ retErr.reasons = <<>>
    /\ retErr.cause = ListError

\* C14: when the wait ended on a failure-class status and the lookup of the
\* reasons failed (the listing of the events or of the stack-set operation
\* results returned an error), the waiter function returns the final object
\* with a non-nil error that names the failure status and carries the error of
\* the lookup.
C14_LookupErrorIsWrapped ==
    (pc = "done" /\ listFailed) =>
        /\ ~IsNil(retErr)
        /\ retObj = Snapshot(lastState, nRefresh)
        /\ kind \in StackKinds =>
              /\ retErr.type = "StackError"
              /\ retErr.status = lastState
              /\ retErr.cause = ListError
        /\ kind \notin StackKinds =>
              /\ kind = "StackSetOperationSucceeded"
              /\ lastState = "FAILED"
              /\ retErr.type = "UnexpectedStateError"
              /\ retErr.state = lastState
              /\ retErr.lastError.type = "ListResultsError"
              /\ retErr.lastError.cause = ListError

C14_Witness ==
    /\ pc = "done"
    /\ kind = "StackSetOperationSucceeded"
    /\ listFailed
    /\ pages = << <<"s1">> >>
    /\ retObj.status = "FAILED"
    /\ retErr.lastError = ListResultsError(ListError)

\* C15: the timeout is a ceiling counted from the start of the wait, and the
\* wait honours the cancellation signal of its caller: once the signal has
\* fired the wait has returned, with a timeout-class error, whatever refresh
\* call was in flight.
C15_HonoursCancellation ==
    /\ now <= conf.Timeout
    /\ (Ended /\ ByTimeout) => (now = conf.Timeout /\ waitErr.type = "TimeoutError")
    /\ cancelled => (Ended /\ waitErr.type \in {"TimeoutError", "UnexpectedStateError"})

\* C16: when the refresher reports that the object no longer exists, the wait
\* stops polling without an error: that refresh is the last call made, and the
\* waiter function returns no object and no error.
C16_GoneIsNotAnError ==
    /\ [](stopReason = "gone" =>
             /\ Ended
             /\ ByGone
             /\ IsNil(waitErr)
             /\ pc = "done" => (retObj = NilObj /\ IsNil(retErr) /\ strategies = <<>>))
    /\ [][stopReason = "gone" => nRefresh' = nRefresh]_vars
    /\ [][(stopReason # "gone" /\ stopReason' = "gone") =>
             (nRefresh' = nRefresh + 1 /\ pc' = "waited")]_vars

C16_Witness ==
    /\ pc = "done"
    /\ kind = "StackDeleted"
    /\ stopReason = "gone"
    /\ nRefresh >= 2
    /\ last.status = "DELETE_IN_PROGRESS"
    /\ retObj = NilObj
    /\ IsNil(retErr)

\* the initial delay the claim gives for waiter function k, in milliseconds
InitialDelay(k) ==
    CASE k \in StackKinds -> 10000
      [] k = "StackSetOperationSucceeded" -> 5000
      [] OTHER -> 0

\* C17: no refresh call is made before the initial delay has elapsed since the
\* start of the wait: 10 seconds for StackCreated, StackUpdated and
\* StackDeleted, 5 seconds for StackSetOperationSucceeded; ChangeSetCreated and
\* TypeRegistrationProgressStatusComplete have none and make their first
\* refresh at once.
C17_NoRefreshBeforeDelay ==
    /\ nRefresh = 0 => now <= IF InitialDelay(kind) < conf.Timeout
                              THEN InitialDelay(kind) ELSE conf.Timeout
    /\ nRefresh > 0 => refreshAt >= InitialDelay(kind)
    /\ nRefresh = 1 => refreshAt = InitialDelay(kind)
    /\ (pc = "refresh" /\ nRefresh = 0) => now = InitialDelay(kind)

C17_Witness ==
    /\ kind = "StackSetOperationSucceeded"
    /\ pc = "sleep"
    /\ nRefresh = 1
    /\ refreshAt = 5 * Second
    /\ last.status = "RUNNING"

\* the call with local state c has observed and returned what its own
\* refreshes, its own listing and its own function give
Alone(c) ==
    /\ c.last = NilObj \/ c.last.status \in Statuses(c.kind)
    /\ c.last.seq <= c.nRefresh
    /\ c.outputRaw \in {NilObj, c.last}
    /\ c.visited = (IF c.kind = "StackSetOperationSucceeded"
                    THEN Summaries(c.pages) ELSE Flatten(c.pages))
    /\ c.pc = "done" =>
          Result(c.retObj, c.retErr, c.strategies)
              = Function(c.kind, c.outputRaw, c.waitErr, c.pages, c.listFailed)

MinPollInterval(k) ==
    CASE k = "StackCreated" -> 1000
      [] k \in {"StackUpdated", "StackDeleted"} -> 5000
      [] OTHER -> 0

\* C19: the sleep between two polls of a wait is never shorter than the
\* minimum poll interval of the policy (1 second for StackCreated, 5 seconds
\* for StackUpdated and StackDeleted) and never longer than a fixed cap, two
\* consecutive refresh calls are at least that interval apart, and the sleeps
\* of a wait never decrease.
C19_SleepFloorMonotoneCapped ==
    /\ [](/\ conf.MinTimeout = MinPollInterval(kind)
          /\ pc = "sleep" => (wait >= MinPollInterval(kind) /\ wait <= 10000))
    /\ [][wait' >= wait]_vars
    /\ [][(nRefresh >= 1 /\ nRefresh' = nRefresh + 1) =>
             /\ refreshAt' - refreshAt >= wait
             /\ refreshAt' - refreshAt >= MinPollInterval(kind)]_vars

C19_Witness ==
    /\ kind = "StackCreated"
    /\ pc = "sleep"
    /\ nRefresh = 3
    /\ wait = 4 * Second
    /\ refreshAt >= 13 * Second

-----------------------------------------------------------------------------
(* The resource aws_msk_connector.  Two source files define its handlers:  *)
(* aws/resource_aws_msk_connector.go and unnamed/part_000.  The Kafka      *)
(* Connect API is an external service: a call succeeds or fails.           *)

ConnectorFile == "resource_aws_msk_connector.go"

PartFile == "part_000"

ConnectorNames == {"n1", "n2"}

\* the ARNs the service gives its connectors
Arns == {<<"arn", i>> : i \in 1..MaxConnectors}

\* no connector has the ARN
Absent == "<absent>"

\* the schema of resource_aws_msk_connector.go: the type of every attribute
Schema ==
    [connector_name |-> "TypeString", connector_description |-> "TypeString",
     mcu_count |-> "TypeInt", workers_count |-> "TypeInt",
     auth_type |-> "TypeString", encryption_type |-> "TypeString",
     bootstrap_servers |-> "TypeSet", security_groups |-> "TypeSet",
     subnets |-> "TypeSet", kafka_connect_version |-> "TypeString",
     cw_log_group |-> "TypeString", firehose_log_delivery_stream |-> "TypeString",
     s3_log_bucket |-> "TypeString", s3_log_prefix |-> "TypeString",
     execution_role_arn |-> "TypeString", plugins_arns |-> "TypeSet"]

\* the Go type of the value d.Get(key) returns: that of the attribute's schema
\* type, and the nil interface for a key the schema does not declare
GoType(key) ==
    IF key \notin DOMAIN Schema THEN "nil"
    ELSE CASE Schema[key] = "TypeString" -> "string"
           [] Schema[key] = "TypeInt"    -> "int"
           [] OTHER                      -> "*schema.Set"

\* the type assertions d.Get(key).(T) of newCreateConnectorRequest, in order
Assertions ==
    << <<"connector_name", "string">>, <<"connector_description", "string">>,
       <<"connector_configuration", "map[string]*string">>,
       <<"mcu_count", "int64">>, <<"worker_count", "int64">>,
       <<"auth_type", "string">>, <<"encryption_type", "string">>,
       <<"bootstrap_servers", "string">>, <<"security_groups", "[]*string">>,
       <<"subnets", "[]*string">>, <<"kafka_connect_version", "string">>,
       <<"execution_role_arn", "*string">>, <<"plugins_arns", "[]string">>,
       <<"cw_log_group", "*string">>, <<"firehose_log_delivery_stream", "*string">>,
       <<"s3_log_bucket", "*string">>, <<"s3_log_prefix", "*string">> >>

\* the assertions that precede the call of loadCustomPlugins
AssertionsBeforeList == 13

\* the assertions that panic: the value is not of the asserted type
Mismatches == {i \in 1..Len(Assertions) : GoType(Assertions[i][1]) # Assertions[i][2]}

\* newCreateConnectorRequest panics at its first failing assertion
RequestPanics == Mismatches # {}

\* it calls ListCustomPlugins only when no assertion before the call panicked
RequestLists == \A i \in Mismatches : i > AssertionsBeforeList

Call(name, ok) == [call |-> name, ok |-> ok]

\* a call that was given, or a DescribeConnector that returned, the
\* CurrentVersion v
CallAt(name, ok, v) == [call |-> name, ok |-> ok, version |-> v]

\* the message isAWSErr looks for in a BadRequestException
DoesNotExist == "BadRequestException: Configuration ARN does not exist"

\* the errors DescribeConnector can fail with
DescribeErrors == {DoesNotExist, "InternalServerErrorException"}

\* DescribeConnector returned neither an error nor an output
NoResult == "<no result>"

\* a call that gave no output: it failed with error e, or returned none
CallErr(name, e) == [call |-> name, ok |-> FALSE, err |-> e]

\* the versions a connector goes through
Versions == {"v1", "v2"}

\* the handler ends with outcome o, having made the API calls cs
Ends(h, o, cs) ==
    /\ handler' = h
    /\ outcome' = o
    /\ calls' = cs
    /\ before' = [handler |-> handler, outcome |-> outcome, id |-> id, attrs |-> attrs]

\* the waiter variables, which the handlers of the resource leave alone
waiterVars ==
    <<running, parked, kind, timeoutArg, cancelled, pc, now, wait, nRefresh,
      refreshAt, last, lastState, stopReason, outputRaw, waitErr, pages, listDone,
      listFailed, visited, strategies, retObj, retErr, clsIn, clsOut>>

\* resourceAwsMskConnectorRead of resource_aws_msk_connector.go, for the
\* resource with ID curId and attributes curAttrs, after the calls cs.  A
\* failed DescribeConnector clears the ID.  After a successful one the ID is
\* the ARN described and d.Set is called for every field, in the order of a
\* map iteration; bootstrap_servers and plugins_arns are sets and are given a
\* string, and the nested structs of the response are dereferenced unchecked:
\* the handler returns error diagnostics or panics on the way.
ReadOfConnectorFile(h, curId, curAttrs, rem, cs) ==
    /\ remote' = rem
    /\ \/ /\ id' = NoId
          /\ attrs' = curAttrs
          /\ Ends(h, "error", Append(cs, Call("DescribeConnector", FALSE)))
       \/ /\ rem[curId] # Absent
          /\ id' = curId
          /\ \/ /\ attrs' = [connector_name |-> rem[curId]]
                /\ Ends(h, "error", Append(cs, Call("DescribeConnector", TRUE)))
             \/ /\ attrs' \in {curAttrs, [connector_name |-> rem[curId]]}
                /\ Ends(h, "panic", Append(cs, Call("DescribeConnector", TRUE)))

\* resourceAwsMskConnectCreate of resource_aws_msk_connector.go
resourceAwsMskConnectCreate ==
    /\ pc = "msk"
    /\ impl = ConnectorFile
    /\ outcome # "panic"
    /\ id = NoId
    /\ IF RequestPanics
       THEN /\ Ends("create", "panic",
                    IF RequestLists THEN <<Call("ListCustomPlugins", TRUE)>> ELSE <<>>)
            /\ UNCHANGED <<id, attrs, remote, version>>
       ELSE \/ /\ Ends("create", "error", <<Call("ListCustomPlugins", FALSE)>>)
               /\ UNCHANGED <<id, attrs, remote, version>>
            \/ /\ Ends("create", "error", <<Call("ListCustomPlugins", TRUE),
                                            Call("CreateConnector", FALSE)>>)
               /\ UNCHANGED <<id, attrs, remote, version>>
            \/ \E arn \in Arns :
                  /\ remote[arn] = Absent
                  /\ version' = [version EXCEPT ![arn] = "v1"]
                  /\ ReadOfConnectorFile("create", arn,
                        [connector_name |-> config.connector_name],
                        [remote EXCEPT ![arn] = config.connector_name],
                        <<Call("ListCustomPlugins", TRUE),
                          Call("CreateConnector", TRUE)>>)
    /\ UNCHANGED <<impl, config, imported, waiterVars>>

\* resourceAwsMskConnectorRead of resource_aws_msk_connector.go
resourceAwsMskConnectorRead ==
    /\ pc = "msk"
    /\ impl = ConnectorFile
    /\ outcome # "panic"
    /\ id # NoId
    /\ ReadOfConnectorFile("read", id, attrs, remote, <<>>)
    /\ UNCHANGED <<impl, config, version, imported, waiterVars>>

\* the type assertions d.Get(key).(T) of resourceAwsMskConnectorUpdate, made
\* after its DescribeConnector call and before its UpdateConnector call
UpdateAssertions == << <<"mcu_count", "int64">>, <<"worker_count", "int64">> >>

UpdatePanics ==
    \E i \in 1..Len(UpdateAssertions) :
        GoType(UpdateAssertions[i][1]) # UpdateAssertions[i][2]

\* resourceAwsMskConnectorUpdate of resource_aws_msk_connector.go
resourceAwsMskConnectorUpdate ==
    /\ pc = "msk"
    /\ impl = ConnectorFile
    /\ outcome # "panic"
    /\ id # NoId
    /\ \/ /\ Ends("update", "error", <<Call("DescribeConnector", FALSE)>>)
          /\ UNCHANGED <<id, attrs, remote, version>>
       \/ /\ remote[id] # Absent
          /\ LET described == CallAt("DescribeConnector", TRUE, version[id])
             IN  IF UpdatePanics
                 THEN /\ Ends("update", "panic", <<described>>)
                      /\ UNCHANGED <<id, attrs, remote, version>>
                 ELSE \/ /\ Ends("update", "error",
                                 <<described,
                                   CallAt("UpdateConnector", FALSE, described.version)>>)
                         /\ UNCHANGED <<id, attrs, remote, version>>
                      \/ \E v \in Versions \ {version[id]} :
                            /\ version' = [version EXCEPT ![id] = v]
                            /\ ReadOfConnectorFile("update", id, attrs, remote,
                                  <<described,
                                    CallAt("UpdateConnector", TRUE, described.version)>>)
    /\ UNCHANGED <<impl, config, imported, waiterVars>>

\* resourceAwsMskConnectorDelete of resource_aws_msk_connector.go; the handler
\* does not touch the ID
resourceAwsMskConnectorDelete ==
    /\ pc = "msk"
    /\ impl = ConnectorFile
    /\ outcome # "panic"
    /\ id # NoId
    /\ \/ /\ Ends("delete", "error", <<Call("DescribeConnector", FALSE)>>)
          /\ UNCHANGED remote
       \/ /\ remote[id] # Absent
          /\ LET described == CallAt("DescribeConnector", TRUE, version[id])
             IN  \/ /\ Ends("delete", "error",
                            <<described,
                              CallAt("DeleteConnector", FALSE, described.version)>>)
                    /\ UNCHANGED remote
                 \/ /\ Ends("delete", "ok",
                            <<described,
                              CallAt("DeleteConnector", TRUE, described.version)>>)
                    /\ remote' = [remote EXCEPT ![id] = Absent]
    /\ UNCHANGED <<id, attrs, version, impl, config, imported, waiterVars>>

\* the attributes the schema of part_000 declares
SchemaOfPartFile == {"connector_name", "connector_description"}

\* d.Set(key, value) on the attributes a of a resource whose schema declares
\* keys: for a key that is not declared it returns an error and changes nothing
SetAttr(keys, a, key, value) ==
    IF key \in keys
    THEN [k \in DOMAIN a \cup {key} |-> IF k = key THEN value ELSE a[k]]
    ELSE a

\* resourceAwsMskConnectorRead of part_000.  Only the error "Configuration
\* ARN does not exist" clears the ID, and then no error is returned; any
\* other error, and a call that returns no output, end the handler with an
\* error.  After a successful call it calls d.Set("arn", ...) and does not
\* look at what d.Set returns.
ReadOfPartFile(h, curId, curAttrs, rem, cs) ==
    /\ remote' = rem
    /\ \/ /\ rem[curId] = Absent
          /\ id' = NoId
          /\ attrs' = curAttrs
          /\ Ends(h, "ok", Append(cs, CallErr("DescribeConnector", DoesNotExist)))
       \/ \E e \in (DescribeErrors \ {DoesNotExist}) \cup {NoResult} :
             /\ id' = curId
             /\ attrs' = curAttrs
             /\ Ends(h, "error", Append(cs, CallErr("DescribeConnector", e)))
       \/ /\ rem[curId] # Absent
          /\ id' = curId
          /\ attrs' = SetAttr(SchemaOfPartFile, curAttrs, "arn", curId)
          /\ Ends(h, "ok", Append(cs, Call("DescribeConnector", TRUE)))

\* resourceAwsMskConnectCreate of part_000: the request it sends is empty
resourceAwsMskConnectCreate_part000 ==
    /\ pc = "msk"
    /\ impl = PartFile
    /\ id = NoId
    /\ \/ /\ Ends("create", "error", <<Call("CreateConnector", FALSE)>>)
          /\ UNCHANGED <<id, attrs, remote, version>>
       \/ \E arn \in Arns, name \in ConnectorNames :
             /\ remote[arn] = Absent
             /\ version' = [version EXCEPT ![arn] = "v1"]
             /\ ReadOfPartFile("create", arn,
                   [connector_name |-> config.connector_name],
                   [remote EXCEPT ![arn] = name],
                   <<Call("CreateConnector", TRUE)>>)
    /\ UNCHANGED <<impl, config, imported, waiterVars>>

\* resourceAwsMskConnectorRead of part_000
resourceAwsMskConnectorRead_part000 ==
    /\ pc = "msk"
    /\ impl = PartFile
    /\ id # NoId
    /\ ReadOfPartFile("read", id, attrs, remote, <<>>)
    /\ UNCHANGED <<impl, config, version, imported, waiterVars>>

\* resourceAwsMskConnectorUpdate of part_000: the request carries the ARN only
resourceAwsMskConnectorUpdate_part000 ==
    /\ pc = "msk"
    /\ impl = PartFile
    /\ id # NoId
    /\ \/ /\ Ends("update", "error", <<Call("UpdateConnector", FALSE)>>)
          /\ UNCHANGED <<id, attrs, remote, version>>
       \/ /\ remote[id] # Absent
          /\ \E v \in Versions \ {version[id]} :
                /\ version' = [version EXCEPT ![id] = v]
                /\ ReadOfPartFile("update", id, attrs, remote,
                      <<Call("UpdateConnector", TRUE)>>)
    /\ UNCHANGED <<impl, config, imported, waiterVars>>

\* resourceAwsMskConnectorDelete of part_000
resourceAwsMskConnectorDelete_part000 ==
    /\ pc = "msk"
    /\ impl = PartFile
    /\ id # NoId
    /\ \/ /\ Ends("delete", "error", <<Call("DeleteConnector", FALSE)>>)
          /\ UNCHANGED remote
       \/ /\ remote[id] # Absent
          /\ Ends("delete", "ok", <<Call("DeleteConnector", TRUE)>>)
          /\ remote' = [remote EXCEPT ![id] = Absent]
    /\ UNCHANGED <<id, attrs, version, impl, config, imported, waiterVars>>

\* the Importer of the schema.Resource each file returns: neither sets one
Importer == [f \in {ConnectorFile, PartFile} |-> "nil"]

\* the import of the resource in state by its ID, as the second step of
\* TestAccAWSMskConnector_basic asks for: a resource without Importer does not
\* support import, no handler of the resource runs and no state is imported
ImportResourceState ==
    /\ pc = "msk"
    /\ outcome # "panic"
    /\ id # NoId
    /\ Importer[impl] = "nil"
    /\ imported' = NoImport
    /\ Ends("import", "error", <<>>)
    /\ UNCHANGED <<id, attrs, remote, version, impl, config, waiterVars>>

\* a resource that is to be created, or one that is in state already, and the
\* connectors that exist remotely
InitConnector ==
    /\ running = 1
    /\ parked = <<>>
    /\ kind = "StackCreated"
    /\ timeoutArg = ShortTimeout
    /\ cancelled = FALSE
    /\ pc = "msk"
    /\ now = 0
    /\ wait = InitialWait
    /\ nRefresh = 0
    /\ refreshAt = 0
    /\ last = NilObj
    /\ lastState = ""
    /\ stopReason = ""
    /\ outputRaw = NilObj
    /\ waitErr = NoErr
    /\ pages = <<>>
    /\ listDone = FALSE
    /\ listFailed = FALSE
    /\ visited = <<>>
    /\ strategies = <<>>
    /\ retObj = NilObj
    /\ retErr = NoErr
    /\ clsIn = <<>>
    /\ clsOut = NoClassifier
    /\ impl \in {ConnectorFile, PartFile}
    /\ config \in [connector_name : ConnectorNames]
    /\ remote \in [Arns -> ConnectorNames \cup {Absent}]
    /\ version \in [Arns -> Versions]
    /\ \/ id = NoId /\ attrs = [connector_name |-> ""]
       \/ id \in Arns /\ attrs = [connector_name |-> config.connector_name]
    /\ before = NoBefore
    /\ imported = NoImport
    /\ handler = ""
    /\ outcome = "none"
    /\ calls = <<>>

NextConnector ==
    \/ resourceAwsMskConnectCreate
    \/ resourceAwsMskConnectorRead
    \/ resourceAwsMskConnectorUpdate
    \/ resourceAwsMskConnectorDelete
    \/ resourceAwsMskConnectCreate_part000
    \/ resourceAwsMskConnectorRead_part000
    \/ resourceAwsMskConnectorUpdate_part000
    \/ resourceAwsMskConnectorDelete_part000
    \/ ImportResourceState

SpecConnector == InitConnector /\ [][NextConnector]_vars

\* every API call the latest handler made succeeded
AllCallsSucceeded == \A i \in 1..Len(calls) : calls[i].ok

\* C20: a create of an aws_msk_connector configured with connector_name = N
\* whose API calls all succeed is successful, and leaves the resource in state
\* with a non-empty ID, the ARN of the connector created, and with the
\* attribute connector_name equal to N.
C20_CreateLeavesNamedResource ==
    (handler = "create" /\ AllCallsSucceeded) =>
        /\ outcome = "ok"
        /\ id \in Arns
        /\ remote[id] # Absent
        /\ attrs.connector_name = config.connector_name

-----------------------------------------------------------------------------
(* Properties of the returns of the stack-set and change-set waiters.      *)

\* the wait handed back an operation or a change set with status FAILED
FinalFailed == outputRaw # NilObj /\ outputRaw.status = "FAILED"

\* the pages of pgs that are not nil
NonNilPages(pgs) == SelectSeq(pgs, LAMBDA p : p # NilPage)

\* C22: StackSetOperationSucceeded lists the operation results iff the final
\* operation has status FAILED.  It then returns the final operation with the
\* wait error, to which it has attached the summaries of every page served, in
\* page order up to the last page, a nil page adding nothing, or else the
\* error of the listing when the listing failed.  For any other final status
\* it makes no listing call and returns what the wait returned.
C22_ListsResultsIffFailed ==
    (kind = "StackSetOperationSucceeded" /\ pc \in {"waited", "done"}) =>
        /\ Lists <=> FinalFailed
        /\ ~FinalFailed => (pages = <<>> /\ ~listDone /\ ~listFailed)
        /\ (pc = "done" /\ ~FinalFailed) =>
              (retObj = outputRaw /\ retErr = waitErr /\ strategies = <<>>)
        /\ (pc = "done" /\ FinalFailed) =>
              /\ retObj = Snapshot("FAILED", nRefresh)
              /\ waitErr = UnexpectedStateError("FAILED")
              /\ retErr.type = waitErr.type
              /\ retErr.state = waitErr.state
              /\ listFailed =>
                    retErr.lastError = [type |-> "ListResultsError",
                                        summaries |-> <<>>, cause |-> ListError]
              /\ ~listFailed =>
                    /\ listDone
                    /\ retErr.lastError.type = "OperationResults"
                    /\ retErr.lastError.summaries = Flatten(NonNilPages(pages))
                    /\ \A i \in 1..Len(retErr.lastError.summaries) :
                          retErr.lastError.summaries[i] \in {"s1", "s2"}

C22_Witness ==
    /\ kind = "StackSetOperationSucceeded"
    /\ pc = "done"
    /\ nRefresh >= 2
    /\ listDone
    /\ pages = <<NilPage, <<"s1">> >>
    /\ retObj.status = "FAILED"
    /\ retErr.lastError.summaries = <<"s1">>

\* C23: ChangeSetCreated returns the change set with a nil error when the wait
\* ended on CREATE_COMPLETE.  When the wait ended with the change set in status
\* FAILED it returns that change set with the error of the wait, which is not
\* nil and has the StatusReason of that change set as its last error.  When the
\* wait gave no change set it returns nil with the error of the wait.
C23_ChangeSetCreatedReturns ==
    (kind = "ChangeSetCreated" /\ pc = "done") =>
        /\ stopReason = "target" =>
              /\ lastState = "CREATE_COMPLETE"
              /\ retObj = Snapshot("CREATE_COMPLETE", nRefresh)
              /\ IsNil(retErr)
        /\ FinalFailed =>
              /\ retObj = Snapshot("FAILED", nRefresh)
              /\ ~IsNil(retErr)
              /\ retErr.type = waitErr.type
              /\ retErr.state = "FAILED"
              /\ retErr.lastError = [type |-> "errorString", of |-> nRefresh]
        /\ outputRaw = NilObj => (retObj = NilObj /\ retErr = waitErr)
        /\ strategies = <<>>
        /\ pages = <<>>

C23_Witness ==
    /\ kind = "ChangeSetCreated"
    /\ pc = "done"
    /\ nRefresh = 3
    /\ last.status = "FAILED"
    /\ retObj = Snapshot("FAILED", 3)
    /\ retErr.type = "UnexpectedStateError"
    /\ retErr.lastError.of = 3

-----------------------------------------------------------------------------
(* Relations between the results of the three classifiers.                 *)

\* a can be obtained from b by deleting elements
RECURSIVE IsSubsequence(_, _)
IsSubsequence(a, b) ==
    IF a = <<>> THEN TRUE
    ELSE IF b = <<>> THEN FALSE
    ELSE IF Head(a) = Head(b) THEN IsSubsequence(Tail(a), Tail(b))
    ELSE IsSubsequence(a, Tail(b))

\* the events of evs that satisfy one predicate of the rollback classifier, or both
FailedOrRollback(evs) ==
    {i \in 1..Len(evs) : EndsWithFailed(evs[i]) \/ StartsWithRollback(evs[i])}

\* C24: for the three classifiers applied to the same events, every event
\* contributes at most one reason, also an event that satisfies both predicates
\* of a classifier, such as a ROLLBACK_FAILED event in the rollback classifier:
\* each result is a subsequence, in order, of the reasons of the events and is
\* no longer than the events, and the result of the create-failure classifier
\* is a subsequence of the result of the rollback classifier and of the result
\* of the deletion classifier.
C24_OneReasonPerEvent ==
    clsOut.fn # "" =>
        LET f == getCloudFormationFailures(<<clsIn>>, FALSE).failures
            r == getCloudFormationRollbackReasons(<<clsIn>>, FALSE).failures
            d == getCloudFormationDeletionReasons(<<clsIn>>, FALSE).failures
            all == [i \in 1..Len(clsIn) |-> StringValue(clsIn[i].ResourceStatusReason)]
        IN  /\ clsOut.failures \in {f, r, d}
            /\ IsSubsequence(clsOut.failures, all)
            /\ Len(clsOut.failures) <= Len(clsIn)
            /\ \A x \in {f, r, d} : IsSubsequence(x, all) /\ Len(x) <= Len(clsIn)
            /\ Len(r) <= Cardinality(FailedOrRollback(clsIn))
            /\ IsSubsequence(f, r)
            /\ IsSubsequence(f, d)

C24_Witness ==
    /\ clsOut.fn = "getCloudFormationRollbackReasons"
    /\ Len(clsIn) = 2
    /\ clsIn[1].ResourceStatus = String(<<"ROLLBACK", "FAILED">>)
    /\ clsIn[1].ResourceStatusReason = String(<<"r1">>)
    /\ clsIn[2].ResourceStatus = String(<<"CREATE", "COMPLETE">>)
    /\ clsOut.failures = << <<"r1">> >>
    /\ getCloudFormationFailures(<<clsIn>>, FALSE).failures = << <<"r1">> >>

-----------------------------------------------------------------------------
(* Properties of the handlers of aws_msk_connector.                        *)

\* API call n was made by the latest handler
Made(n) == \E i \in 1..Len(calls) : calls[i].call = n

\* API call n was made by the latest handler and succeeded
Succeeded(n) == \E i \in 1..Len(calls) : calls[i].call = n /\ calls[i].ok

\* C21: create followed by import is a round trip: the import, by its ID, of
\* the resource that a successful create left in state succeeds, and the
\* state it yields has that ID and, for every attribute other than
\* current_version, the value the create left.
C21_CreateImportRoundTrip ==
    (handler = "import" /\ before.handler = "create" /\ before.outcome = "ok") =>
        /\ outcome = "ok"
        /\ imported.id = id
        /\ imported.attrs = attrs

Mutating == IF handler = "update" THEN "UpdateConnector" ELSE "DeleteConnector"

\* C26: resourceAwsMskConnectorUpdate and resourceAwsMskConnectorDelete of
\* resource_aws_msk_connector.go call DescribeConnector first; when it fails
\* they make no mutating call; when it succeeds they call UpdateConnector or
\* DeleteConnector with the CurrentVersion of its response.  Update runs the
\* read only after a successful UpdateConnector, and a failed UpdateConnector
\* or DeleteConnector leaves the resource ID as it was.
C26_DescribeBeforeMutation ==
    (impl = ConnectorFile /\ handler \in {"update", "delete"}) =>
        /\ calls # <<>>
        /\ calls[1].call = "DescribeConnector"
        /\ ~calls[1].ok => (Len(calls) = 1 /\ outcome = "error" /\ id = before.id)
        /\ calls[1].ok =>
              /\ Len(calls) >= 2
              /\ calls[2].call = Mutating
              /\ calls[2].version = calls[1].version
              /\ ~calls[2].ok => (Len(calls) = 2 /\ outcome = "error" /\ id = before.id)
              /\ Len(calls) > 2 =>
                    /\ handler = "update"
                    /\ calls[2].ok
                    /\ calls[3].call = "DescribeConnector"

\* C27: in the read handler of part_000 only the error "does not exist" of
\* DescribeConnector removes the resource from state: the ID is cleared and no
\* error is returned.  Any other error of DescribeConnector, and a call that
\* returns no result, end the handler with an error and leave the ID as it
\* was.  After a successful call the ID is as it was and the attribute arn in
\* state is the ARN of the response.
C27_OnlyDoesNotExistRemoves ==
    (impl = PartFile /\ handler = "read") =>
        /\ Len(calls) = 1
        /\ calls[1].call = "DescribeConnector"
        /\ ~calls[1].ok =>
              /\ calls[1].err = DoesNotExist => (id = NoId /\ outcome = "ok")
              /\ calls[1].err # DoesNotExist => (id = before.id /\ outcome = "error")
        /\ calls[1].ok =>
              /\ id = before.id
              /\ outcome = "ok"
              /\ "arn" \in DOMAIN attrs
              /\ attrs["arn"] = id

=============================================================================
